---- MODULE Spec2Model ----
(***************************************************************************)
(* Model of the Auth0 rule caissonIDCheck (src/src/rules/caisson-id-check.js). *)
(* One subject logs in repeatedly.  Every login is one invocation of the   *)
(* rule: a normal login runs the eligibility decision and may redirect, a  *)
(* redirect callback exchanges the token, fetches the ID Check result,     *)
(* validates it and writes the user's app_metadata.caisson.  The rule      *)
(* suspends at its three awaits (axios.post, axios.get,                    *)
(* updateAppMetadata); each await is one step of the model.                *)
(*                                                                         *)
(* JavaScript values.  A number, a boolean, NaN and undefined are the      *)
(* pairs <<tag, n>> below, so that the loose operators of the rule         *)
(* (!, ||, >=, ===) are modelled as JavaScript evaluates them.  An         *)
(* optional string is <<>> (undefined) or <<s>>.  A configuration value is *)
(* a sequence of one-character strings, <<>> being an unset or empty       *)
(* value (the rule reads configuration values by truthiness first, which   *)
(* does not tell the two apart).                                           *)
(***************************************************************************)
EXTENDS Integers, Sequences, FiniteSets, TLC

VARIABLES
    now,       \* Date.now(), milliseconds
    logins,    \* number of invocations started so far
    stored,    \* app_metadata.caisson as persisted by auth0.users: <<>> or <<record>>
    loaded,    \* app_metadata.caisson of the user object the host passed in
    usr,       \* user.app_metadata.caisson in memory during the invocation
    manager,   \* manager.debug, manager.idCheckFlags
    ctx,       \* context and manager.util of the invocation
    pc,        \* where the invocation stands
    decision,  \* setIDCheckRedirect was called
    redirect,  \* context.redirect was set by doRedirect
    calls,     \* calls to collaborators made by the invocation, in order, each
               \* with how it ended ("pending" while awaited)
    results,   \* the results object built by idCheckResults: <<>> or <<record>>
    verdict,   \* what validateIDCheck did with results
    err,       \* the error caught by the invocation, "" when none
    cb,        \* the invocations of callback, in order
    logs,      \* number of console.log calls
    mode,      \* "record", or "replay" when an invocation is run a second time
    ins,       \* the inputs of the invocation run first, for the second run
    first      \* what the invocation run first did: <<>> or <<record>>

\* the variables that serve to run one invocation twice
replay == <<mode, ins, first>>

vars == <<now, logins, stored, loaded, usr, manager, ctx, pc, decision,
          redirect, calls, results, verdict, err, cb, logs, replay>>

----------------------------------------------------------------------------
(* Bounds of the model *)

MaxLogins == 3
StartTime == 1

(* Program constants *)

DayMs == 1000 * 60 * 60 * 24
IDCheckTTL == 20 * 60 * 1000
Dashboard == "https://www.caisson.com"

----------------------------------------------------------------------------
(* JavaScript values *)

Num(n) == <<"num", n>>
Bool(b) == <<"bool", IF b THEN 1 ELSE 0>>
NaN == <<"nan", 0>>
Undef == <<"undef", 0>>

\* ToBoolean
Truthy(v) ==
    CASE v[1] = "num" -> v[2] # 0
      [] v[1] = "bool" -> v[2] = 1
      [] OTHER -> FALSE

\* ToNumber
ToNumber(v) ==
    CASE v[1] = "num" -> v
      [] v[1] = "bool" -> Num(v[2])
      [] OTHER -> NaN

\* !a
JsNot(a) == Bool(~Truthy(a))

\* a || b
JsOr(a, b) == IF Truthy(a) THEN a ELSE b

\* a - b
JsMinus(a, b) ==
    IF ToNumber(a) = NaN \/ ToNumber(b) = NaN THEN NaN
    ELSE Num(ToNumber(a)[2] - ToNumber(b)[2])

\* a >= b
JsGe(a, b) ==
    /\ ToNumber(a) # NaN
    /\ ToNumber(b) # NaN
    /\ ToNumber(a)[2] >= ToNumber(b)[2]

\* a > b
JsGt(a, b) ==
    /\ ToNumber(a) # NaN
    /\ ToNumber(b) # NaN
    /\ ToNumber(a)[2] > ToNumber(b)[2]

\* a === b
JsStrictEq(a, b) == a # NaN /\ b # NaN /\ a = b

----------------------------------------------------------------------------
(* Configuration strings *)

Digit == [c \in {"0", "1", "2", "3", "4", "5", "6", "7", "8", "9"} |->
            CASE c = "0" -> 0 [] c = "1" -> 1 [] c = "2" -> 2 [] c = "3" -> 3
              [] c = "4" -> 4 [] c = "5" -> 5 [] c = "6" -> 6 [] c = "7" -> 7
              [] c = "8" -> 8 [] OTHER -> 9]

IsDigit(c) == c \in DOMAIN Digit

RECURSIVE SkipSpaces(_)
SkipSpaces(s) ==
    IF s # <<>> /\ Head(s) = " " THEN SkipSpaces(Tail(s)) ELSE s

\* the value of the leading digits of s, continuing from acc
RECURSIVE DigitsValue(_, _)
DigitsValue(s, acc) ==
    IF s = <<>> \/ ~IsDigit(Head(s)) THEN acc
    ELSE DigitsValue(Tail(s), 10 * acc + Digit[Head(s)])

\* parseInt(s): leading white space, an optional sign, then decimal digits up
\* to the first character that is none; NaN when there is no digit
ParseInt(s) ==
    LET t == SkipSpaces(s)
        neg == t # <<>> /\ Head(t) = "-"
        u == IF t # <<>> /\ Head(t) \in {"-", "+"} THEN Tail(t) ELSE t
    IN  IF u = <<>> \/ ~IsDigit(Head(u)) THEN NaN
        ELSE Num((IF neg THEN -1 ELSE 1) * DigitsValue(u, 0))

LowerChar(c) ==
    CASE c = "T" -> "t" [] c = "R" -> "r" [] c = "U" -> "u" [] c = "E" -> "e"
      [] c = "F" -> "f" [] c = "A" -> "a" [] c = "L" -> "l" [] c = "S" -> "s"
      [] OTHER -> c

\* s.toLowerCase()
ToLowerCase(s) == [i \in 1..Len(s) |-> LowerChar(s[i])]

\* conf && conf.toLowerCase() === "true" ? true : false
FlagOn(conf) == conf # <<>> /\ ToLowerCase(conf) = <<"t", "r", "u", "e">>

\* manager.debug and manager.idCheckFlags
Manager(conf) ==
    [debug |-> FlagOn(conf.CAISSON_DEBUG),
     on_registration |-> FlagOn(conf.CAISSON_ON_REGISTRATION),
     login_frequency_days |->
        IF conf.CAISSON_LOGIN_FREQUENCY_DAYS # <<>>
        THEN ParseInt(conf.CAISSON_LOGIN_FREQUENCY_DAYS)
        ELSE Num(0)]

----------------------------------------------------------------------------
(* The rule's helpers *)

\* {}: an app_metadata.caisson object with no field set
EmptyObj ==
    [idcheck_url |-> <<>>, status |-> <<>>, last_check |-> Undef, count |-> Undef]

\* x || {}
OrEmpty(x) == IF x = <<>> THEN EmptyObj ELSE x[1]

\* millisToDays rounding to the nearest day instead of down
millisToDaysRounded(mils) ==
    IF ToNumber(mils) = NaN THEN NaN
    ELSE Num((ToNumber(mils)[2] + DayMs \div 2) \div DayMs)

\* Math.floor(mils / 1000 / 60 / 60 / 24)
millisToDays(mils) ==
    IF ToNumber(mils) = NaN THEN NaN ELSE Num(ToNumber(mils)[2] \div DayMs)

\* PeriodElapsed with a frequency of 0 taken as an interval
PeriodElapsedFromZero(freq, last_check, t) ==
    /\ JsGe(freq, Num(0))
    /\ JsGe(JsOr(JsNot(last_check), millisToDays(JsMinus(Num(t), last_check))),
            freq)

\* PeriodElapsed asking for more than the interval
PeriodElapsedStrict(freq, last_check, t) ==
    /\ JsGt(freq, Num(0))
    /\ JsGt(JsOr(JsNot(last_check), millisToDays(JsMinus(Num(t), last_check))),
            freq)

\* the condition of the third branch of the normal login:
\* login_frequency_days > 0 &&
\*   (!last_check || millisToDays(Date.now() - last_check)) >= login_frequency_days
PeriodElapsed(freq, last_check, t) ==
    /\ JsGt(freq, Num(0))
    /\ JsGe(JsOr(JsNot(last_check), millisToDays(JsMinus(Num(t), last_check))),
            freq)

\* NeedsIDCheck with a frequency of 0 ("never") tested before the registration rule
NeedsIDCheckNeverFirst(m, loginsCount, caisson, t) ==
    IF JsStrictEq(m.login_frequency_days, Num(0)) THEN FALSE
    ELSE IF m.on_registration /\ loginsCount = 0 THEN TRUE
    ELSE IF JsStrictEq(m.login_frequency_days, Num(-1)) THEN TRUE
    ELSE IF PeriodElapsed(m.login_frequency_days, caisson.last_check, t) THEN TRUE
    ELSE FALSE

\* whether the normal login calls setIDCheckRedirect
NeedsIDCheck(m, loginsCount, caisson, t) ==
    IF m.on_registration /\ loginsCount = 0 THEN TRUE
    ELSE IF JsStrictEq(m.login_frequency_days, Num(-1)) THEN TRUE
    ELSE IF PeriodElapsed(m.login_frequency_days, caisson.last_check, t) THEN TRUE
    ELSE FALSE

\* NotOurRedirect reading the exchange token instead of the flow marker
NotOurRedirectByToken(c) == c.t = <<>>

\* !manager.util.queryParams.caisson_flow
NotOurRedirect(c) == c.caisson_flow = <<>>

\* NoExchangeToken without the test
NoExchangeTokenUnchecked(c) == FALSE

\* !manager.util.queryParams.t
NoExchangeToken(c) == c.t = <<>>

\* String(x) of an optional string, as + concatenates it
Str(x) == IF x = <<>> THEN "undefined" ELSE x[1]

\* Date.parse(s): the milliseconds of a date string, NaN for anything else
DateParse(s) == IF s.kind = "iso" THEN Num(s.ms) ELSE NaN

\* resp.data.confidence.document === "high" && resp.data.confidence.face === "high"
Status(confidence) ==
    IF confidence.document = "high" /\ confidence.face = "high"
    THEN "passed" ELSE "flagged"

\* the results object idCheckResults builds from resp.data
Results(data) ==
    [check_id |-> data.check_id,
     auth0_id |-> data.customer_id,
     timestamp |-> data.checked_on,
     status |-> Status(data.confidence[1])]

\* validateIDCheck letting a flagged result through
validateIDCheckFlaggedOk(r, user_id, state, t) ==
    IF r.auth0_id # user_id \o "__" \o Str(state) THEN "ID mismatch"
    ELSE IF JsGt(JsMinus(Num(t), DateParse(r.timestamp)), Num(IDCheckTTL))
         THEN "ID Check too old."
    ELSE ""

\* validateIDCheck without the identity check
validateIDCheckUnbound(r, user_id, state, t) ==
    IF JsGt(JsMinus(Num(t), DateParse(r.timestamp)), Num(IDCheckTTL))
    THEN "ID Check too old."
    ELSE IF r.status = "flagged" THEN "ID Check flagged."
    ELSE ""

\* validateIDCheck rejecting a result of exactly the time to live
validateIDCheckInclusive(r, user_id, state, t) ==
    IF r.auth0_id # user_id \o "__" \o Str(state) THEN "ID mismatch"
    ELSE IF JsGe(JsMinus(Num(t), DateParse(r.timestamp)), Num(IDCheckTTL))
         THEN "ID Check too old."
    ELSE IF r.status = "flagged" THEN "ID Check flagged."
    ELSE ""

\* validateIDCheck: the message of the error it throws, "" when it returns
validateIDCheck(r, user_id, state, t) ==
    IF r.auth0_id # user_id \o "__" \o Str(state) THEN "ID mismatch"
    ELSE IF JsGt(JsMinus(Num(t), DateParse(r.timestamp)), Num(IDCheckTTL))
         THEN "ID Check too old."
    ELSE IF r.status = "flagged" THEN "ID Check flagged."
    ELSE ""

\* updateUser starting the count again at 1
updateUserCountReset(caisson, r, t) ==
    [idcheck_url |-> <<Dashboard \o "/request/" \o r.check_id>>,
     status |-> <<r.status>>,
     last_check |-> Num(t),
     count |-> Num(1)]

\* updateUser keeping the count it finds
updateUserCountKept(caisson, r, t) ==
    LET c == OrEmpty(caisson)
    IN  [idcheck_url |-> <<Dashboard \o "/request/" \o r.check_id>>,
         status |-> <<r.status>>,
         last_check |-> Num(t),
         count |-> IF Truthy(c.count) THEN c.count ELSE Num(1)]

\* updateUser: the caisson object it leaves in user.app_metadata
updateUser(caisson, r, t) ==
    LET c == OrEmpty(caisson)
    IN  [idcheck_url |-> <<Dashboard \o "/request/" \o r.check_id>>,
         status |-> <<r.status>>,
         last_check |-> Num(t),
         count |-> IF Truthy(c.count) THEN Num(c.count[2] + 1) ELSE Num(1)]

\* dLog(err): the number of lines logged so far, after it
dLog(m, n) == IF m.debug THEN n + 1 ELSE n

----------------------------------------------------------------------------
(* Inputs *)

\* the rule's configuration: the settings of the tenant, the same at every login
Confs ==
    [CAISSON_DEBUG : {<<>>, <<"t", "r", "u", "e">>},
     CAISSON_ON_REGISTRATION :
        {<<>>, <<"T", "r", "u", "e">>, <<"f", "a", "l", "s", "e">>},
     CAISSON_LOGIN_FREQUENCY_DAYS :
        {<<>>, <<"-", "1">>, <<"0">>, <<"1">>, <<"2">>, <<" ", "2", "d">>, <<"x">>}]

\* context and manager.util of a normal login
LoginContexts ==
    [isRedirectCallback : {FALSE},
     loginsCount : {0, 1},
     canRedirect : BOOLEAN,
     user_id : {"u1"},
     caisson_flow : {<<>>},
     t : {<<>>},
     state : {<<>>}]

\* context and manager.util of a redirect callback
CallbackContexts ==
    [isRedirectCallback : {TRUE},
     loginsCount : {1},
     canRedirect : {FALSE},
     user_id : {"u1"},
     caisson_flow : {<<>>, <<"1">>},
     t : {<<>>, <<"tok">>},
     state : {<<>>, <<"s1">>}]

Contexts == LoginContexts \cup CallbackContexts

\* time between two logins
Gaps == {DayMs - 1, DayMs}

\* resp.data.checked_on of a result fetched at time t
Dates(t) ==
    {[kind |-> "iso", ms |-> t - a] : a \in {0, IDCheckTTL, IDCheckTTL + 1}}
        \cup {[kind |-> "none", ms |-> 0]}

\* resp.data of the result fetch at time t
Payloads(t) ==
    [error : {FALSE},
     check_id : {"c1", "c2"},
     customer_id : {"u1__s1", "u1__undefined", "u2__s1"},
     checked_on : Dates(t),
     confidence : {<<>>} \cup
        {<<[document |-> d, face |-> f]>> : d, f \in {"high", "low"}}]
    \cup
    [error : {TRUE}, check_id : {"c1"}, customer_id : {"u1__s1"},
     checked_on : {[kind |-> "none", ms |-> 0]}, confidence : {<<>>}]

----------------------------------------------------------------------------
(* The state machine *)

NoContext ==
    [isRedirectCallback |-> FALSE, loginsCount |-> 0, canRedirect |-> FALSE,
     user_id |-> "u1", caisson_flow |-> <<>>, t |-> <<>>, state |-> <<>>]

\* no inputs kept
NoInputs == [start |-> <<>>, exch |-> <<>>, fetchFail |-> <<>>, data |-> <<>>,
             upd |-> <<>>]

\* no invocation is running: the host holds the stored profile and the
\* configuration, from which every invocation builds the same manager
Init ==
    /\ mode = "record"
    /\ ins = NoInputs
    /\ first = <<>>
    /\ now = StartTime
    /\ logins = 0
    /\ stored = <<>>
    /\ loaded = <<>>
    /\ usr = <<>>
    /\ manager \in {Manager(conf) : conf \in Confs}
    /\ ctx = NoContext
    /\ pc = "idle"
    /\ decision = FALSE
    /\ redirect = FALSE
    /\ calls = <<>>
    /\ results = <<>>
    /\ verdict = "none"
    /\ err = ""
    /\ cb = <<>>
    /\ logs = 0

\* a call to a collaborator, and the calls cs with the awaited one settled as r
Call(op, r) == [op |-> op, res |-> r]
Settled(cs, r) == [cs EXCEPT ![Len(cs)].res = r]

\* The host starts the rule for a login: everything up to the first await, or
\* to the callback when the invocation awaits nothing.
caissonIDCheck(c, gap) ==
    LET m == manager
        t == now + gap
    IN
    /\ pc = "idle"
    /\ logins < MaxLogins
    /\ logins' = logins + 1
    /\ now' = t
    /\ ctx' = c
    /\ loaded' = stored
    /\ UNCHANGED <<stored, manager, results, verdict>>
    /\ IF c.isRedirectCallback
       THEN /\ usr' = stored
            /\ UNCHANGED <<decision, redirect>>
            /\ IF NotOurRedirect(c)
               THEN /\ cb' = <<"ok">>
                    /\ pc' = "done"
                    /\ UNCHANGED <<calls, err, logs>>
               ELSE IF NoExchangeToken(c)
               THEN /\ err' = "Missing Caisson exchange key"
                    /\ logs' = dLog(m, logs)
                    /\ cb' = <<"err">>
                    /\ pc' = "done"
                    /\ UNCHANGED calls
               ELSE /\ calls' = <<Call("exchangeToken", "pending")>>
                    /\ pc' = "exchange"
                    /\ UNCHANGED <<err, logs, cb>>
       ELSE LET caisson == OrEmpty(stored)
                go == NeedsIDCheck(m, c.loginsCount, caisson, t)
            IN  /\ usr' = <<caisson>>
                /\ decision' = go
                /\ calls' = IF ~go THEN <<>>
                            ELSE IF c.canRedirect THEN <<Call("doRedirect", "ok")>>
                            ELSE <<Call("doRedirect", "fail")>>
                /\ redirect' = (go /\ c.canRedirect)
                /\ IF go /\ ~c.canRedirect
                   THEN /\ err' = "redirect not allowed"
                        /\ logs' = dLog(m, logs)
                        /\ cb' = <<"err">>
                   ELSE /\ cb' = <<"ok">>
                        /\ UNCHANGED <<err, logs>>
                /\ pc' = "done"

\* a catch block that logs the error and lets the login proceed
CaughtSwallowed(e) ==
    /\ err' = e
    /\ logs' = dLog(manager, logs)
    /\ cb' = Append(cb, "ok")
    /\ pc' = "done"

\* a catch block without its return: callback(err), then the callback after it
CaughtFallsThrough(e) ==
    /\ err' = e
    /\ logs' = dLog(manager, logs)
    /\ cb' = cb \o <<"err", "ok">>
    /\ pc' = "done"

\* a catch block that lets the login proceed when debugging
CaughtDebugProceeds(e) ==
    /\ err' = e
    /\ logs' = dLog(manager, logs)
    /\ cb' = Append(cb, IF manager.debug THEN "ok" ELSE "err")
    /\ pc' = "done"

\* the invocation ends in a catch block with error e
Caught(e) ==
    /\ err' = e
    /\ logs' = dLog(manager, logs)
    /\ cb' = Append(cb, "err")
    /\ pc' = "done"

\* exchangeToken posting again after a failure
exchangeTokenRetries(outcome) ==
    /\ pc = "exchange"
    /\ IF outcome = "ok"
       THEN /\ calls' = Append(Settled(calls, "ok"), Call("idCheckResults", "pending"))
            /\ pc' = "fetch"
       ELSE /\ calls' = Append(Settled(calls, outcome), Call("exchangeToken", "pending"))
            /\ pc' = "exchange"
    /\ UNCHANGED <<now, logins, stored, loaded, usr, manager, ctx, decision,
                   redirect, results, verdict, err, logs, cb>>

\* axios.post of exchangeToken settles
exchangeTokenSettles(outcome) ==
    /\ pc = "exchange"
    /\ IF outcome = "ok"
       THEN /\ calls' = Append(Settled(calls, "ok"), Call("idCheckResults", "pending"))
            /\ pc' = "fetch"
            /\ UNCHANGED <<err, logs, cb>>
       ELSE /\ calls' = Settled(calls, outcome)
            /\ Caught(IF outcome = "401" THEN "Invalid private key"
                      ELSE "exchange failed")
    /\ UNCHANGED <<now, logins, stored, loaded, usr, manager, ctx, decision,
                   redirect, results, verdict>>

\* axios.get of idCheckResults fails
idCheckResultsFails(outcome) ==
    /\ pc = "fetch"
    /\ calls' = Settled(calls, outcome)
    /\ Caught(IF outcome = "401" THEN "Invalid private key" ELSE "fetch failed")
    /\ UNCHANGED <<now, logins, stored, loaded, usr, manager, ctx, decision,
                   redirect, results, verdict>>

\* axios.get of idCheckResults answers with data: the rest of idCheckResults,
\* and updateUser up to its await
idCheckResultsSettles(data) ==
    /\ pc = "fetch"
    /\ IF data.error
       THEN /\ calls' = Settled(calls, "error data")
            /\ Caught("error in Caisson ID Check")
            /\ UNCHANGED <<usr, results, verdict>>
       ELSE IF data.confidence = <<>>
       THEN /\ calls' = Settled(calls, "bad data")
            /\ Caught("TypeError")
            /\ UNCHANGED <<usr, results, verdict>>
       ELSE LET r == Results(data)
                v == validateIDCheck(r, ctx.user_id, ctx.state, now)
            IN  /\ results' = <<r>>
                /\ verdict' = IF v = "" THEN "valid" ELSE v
                /\ IF v = ""
                   THEN /\ usr' = <<updateUser(usr, r, now)>>
                        /\ calls' = Append(Settled(calls, "ok"),
                                           Call("updateAppMetadata", "pending"))
                        /\ pc' = "update"
                        /\ UNCHANGED <<err, logs, cb>>
                   ELSE /\ calls' = Settled(calls, "ok")
                        /\ Caught(v)
                        /\ UNCHANGED usr
    /\ UNCHANGED <<now, logins, stored, loaded, manager, ctx, decision, redirect>>

\* auth0.users.updateAppMetadata settles
updateAppMetadataSettles(ok) ==
    /\ pc = "update"
    /\ IF ok
       THEN /\ stored' = usr
            /\ calls' = Settled(calls, "ok")
            /\ cb' = Append(cb, "ok")
            /\ pc' = "done"
            /\ UNCHANGED <<err, logs>>
       ELSE /\ calls' = Settled(calls, "fail")
            /\ Caught("update failed")
            /\ UNCHANGED stored
    /\ UNCHANGED <<now, logins, loaded, usr, manager, ctx, decision, redirect,
                   results, verdict>>

\* callback was called: the host ends the login and drops the invocation
hostCompletes ==
    /\ pc = "done"
    /\ pc' = "idle"
    /\ loaded' = stored
    /\ usr' = <<>>
    /\ ctx' = NoContext
    /\ decision' = FALSE
    /\ redirect' = FALSE
    /\ calls' = <<>>
    /\ results' = <<>>
    /\ verdict' = "none"
    /\ err' = ""
    /\ cb' = <<>>
    /\ logs' = 0
    /\ UNCHANGED <<now, logins, stored, manager>>

Next ==
    \/ \E c \in Contexts, gap \in Gaps :
            caissonIDCheck(c, gap) /\ UNCHANGED replay
    \/ \E outcome \in {"ok", "401", "fail"} :
            exchangeTokenSettles(outcome) /\ UNCHANGED replay
    \/ \E outcome \in {"401", "fail"} :
            idCheckResultsFails(outcome) /\ UNCHANGED replay
    \/ \E data \in Payloads(now) :
            idCheckResultsSettles(data) /\ UNCHANGED replay
    \/ \E ok \in BOOLEAN :
            updateAppMetadataSettles(ok) /\ UNCHANGED replay
    \/ hostCompletes /\ UNCHANGED replay

Spec == Init /\ [][Next]_vars

\* an awaited call settles: its promise is fulfilled or rejected
Settles ==
    /\ \/ \E outcome \in {"ok", "401", "fail"} : exchangeTokenSettles(outcome)
       \/ \E outcome \in {"401", "fail"} : idCheckResultsFails(outcome)
       \/ \E data \in Payloads(now) : idCheckResultsSettles(data)
       \/ \E ok \in BOOLEAN : updateAppMetadataSettles(ok)
    /\ UNCHANGED replay

\* the runs in which every awaited call settles; the rule resumes then, as an
\* async function does when the promise it awaits settles
FairSpec == Spec /\ WF_vars(Settles)

----------------------------------------------------------------------------
(* One invocation run twice: first as configured, then again from the same  *)
(* stored record, at the same time, with the same context and the same      *)
(* answers of the collaborators, CAISSON_DEBUG alone being switched.        *)

\* the records an invocation can find: none, or one written by updateUser
StartRecords ==
    {<<>>} \cup
    {<<updateUser(<<>>, [check_id |-> "c1", status |-> "passed"], StartTime)>>}

TwinInit ==
    /\ mode = "record"
    /\ ins = NoInputs
    /\ first = <<>>
    /\ now = StartTime
    /\ logins = 0
    /\ stored \in StartRecords
    /\ loaded = stored
    /\ usr = <<>>
    /\ manager \in {Manager(conf) : conf \in Confs}
    /\ ctx = NoContext
    /\ pc = "idle"
    /\ decision = FALSE
    /\ redirect = FALSE
    /\ calls = <<>>
    /\ results = <<>>
    /\ verdict = "none"
    /\ err = ""
    /\ cb = <<>>
    /\ logs = 0

\* input v of kind k: kept in the first run, required to be the same in the second
Tape(k, v) ==
    /\ UNCHANGED <<mode, first>>
    /\ IF mode = "record"
       THEN ins' = [ins EXCEPT ![k] = <<v>>]
       ELSE ins[k] = <<v>> /\ UNCHANGED ins

\* what an invocation did, as the host and the collaborators see it
Observed ==
    [decision |-> decision, redirect |-> redirect, calls |-> calls, usr |-> usr,
     stored |-> stored, results |-> results, verdict |-> verdict, err |-> err,
     cb |-> cb]

\* the first run has called back: start the second from where the first
\* started, with the debug flag switched
startReplay ==
    /\ mode = "record"
    /\ pc = "done"
    /\ mode' = "replay"
    /\ first' = <<Observed>>
    /\ manager' = [manager EXCEPT !.debug = ~manager.debug]
    /\ stored' = loaded
    /\ now' = StartTime
    /\ logins' = 0
    /\ pc' = "idle"
    /\ usr' = <<>>
    /\ ctx' = NoContext
    /\ decision' = FALSE
    /\ redirect' = FALSE
    /\ calls' = <<>>
    /\ results' = <<>>
    /\ verdict' = "none"
    /\ err' = ""
    /\ cb' = <<>>
    /\ logs' = 0
    /\ UNCHANGED <<loaded, ins>>

TwinNext ==
    \/ \E c \in Contexts, gap \in Gaps :
            caissonIDCheck(c, gap) /\ Tape("start", [c |-> c, gap |-> gap])
    \/ \E outcome \in {"ok", "401", "fail"} :
            exchangeTokenSettles(outcome) /\ Tape("exch", outcome)
    \/ \E outcome \in {"401", "fail"} :
            idCheckResultsFails(outcome) /\ Tape("fetchFail", outcome)
    \/ \E data \in Payloads(now) :
            idCheckResultsSettles(data) /\ Tape("data", data)
    \/ \E ok \in BOOLEAN :
            updateAppMetadataSettles(ok) /\ Tape("upd", ok)
    \/ startReplay

TwinSpec == TwinInit /\ [][TwinNext]_vars

----------------------------------------------------------------------------
(* Vocabulary of the properties *)

\* an invocation of either kind is running or has just called back
InNormalLogin == pc = "done" /\ ~ctx.isRedirectCallback
InCallback == ctx.isRedirectCallback
HasMarker == ctx.caisson_flow # <<>>

\* the rules of the eligibility decision
FirstLoginRule == manager.on_registration /\ ctx.loginsCount = 0
EveryLoginRule == manager.login_frequency_days = Num(-1)
PositiveInterval ==
    manager.login_frequency_days[1] = "num" /\ manager.login_frequency_days[2] > 0
Interval == manager.login_frequency_days[2]

\* the record the invocation found
LastCheck(rec) == IF rec = <<>> THEN Undef ELSE rec[1].last_check
HasLastCheck(rec) == LastCheck(rec)[1] = "num"
ElapsedDays == (now - LastCheck(loaded)[2]) \div DayMs
PrevCount ==
    IF loaded = <<>> \/ loaded[1].count[1] # "num" THEN 0 ELSE loaded[1].count[2]

\* the fetched result
Bound(r) == r.auth0_id = ctx.user_id \o "__" \o Str(ctx.state)
HasAge(r) == r.timestamp.kind = "iso"
Age(r) == now - r.timestamp.ms
Fresh(r) == HasAge(r) /\ Age(r) <= IDCheckTTL
TooOld(r) == HasAge(r) /\ Age(r) > IDCheckTTL
Accepted(r) == Bound(r) /\ ~TooOld(r) /\ r.status = "passed"

\* the calls of the invocation
Called(op) == \E i \in 1..Len(calls) : calls[i].op = op
CallFailed(i) == calls[i].res \notin {"ok", "pending"}

----------------------------------------------------------------------------
(* Properties *)

\* C1 (as claimed): a normal login that matches neither the first-login rule
\* nor the every-login rule, with a positive interval N and a record without
\* last_check, calls setIDCheckRedirect, for every N > 0.
C1_NoLastCheckTriggers ==
    (InNormalLogin /\ ~FirstLoginRule /\ ~EveryLoginRule /\ PositiveInterval
        /\ ~HasLastCheck(loaded))
    => decision

FlaggedCase ==
    /\ InCallback
    /\ results # <<>>
    /\ Bound(results[1])
    /\ Fresh(results[1])
    /\ results[1].status = "flagged"

\* C2 (as claimed): a bound, fresh, flagged result ends the callback with the
\* flagged error and the record persisted with status flagged, last_check =
\* now and the count raised by one.
C2_FlaggedPersisted ==
    FlaggedCase =>
        /\ pc = "done"
        /\ cb = <<"err">>
        /\ err = "ID Check flagged."
        /\ stored # <<>>
        /\ stored[1].status = <<"flagged">>
        /\ stored[1].last_check = Num(now)
        /\ stored[1].count = Num(PrevCount + 1)

\* C2 (amended): a bound, fresh, flagged result ends the callback with the
\* flagged error and login denied; updateUser is not reached, so the record,
\* stored and in memory, is left as it was found.
C2_FlaggedNotPersisted ==
    FlaggedCase =>
        /\ pc = "done"
        /\ cb = <<"err">>
        /\ err = "ID Check flagged."
        /\ ~Called("updateAppMetadata")
        /\ stored = loaded
        /\ usr = loaded

C2_Witness == FlaggedCase /\ pc = "done" /\ loaded # <<>>

\* C3: the stored last_check changes only in the step that settles the
\* updateAppMetadata call of a callback with the marker whose fetched result
\* was accepted by validation (bound, not too old, status passed).
C3_LastCheckOnlyAfterValidation ==
    [][LastCheck(stored') # LastCheck(stored) =>
        /\ pc = "update"
        /\ InCallback
        /\ HasMarker
        /\ results # <<>>
        /\ Accepted(results[1])]_vars

C3_Witness ==
    /\ pc = "done"
    /\ LastCheck(stored) = Num(now)
    /\ HasLastCheck(loaded)
    /\ LastCheck(loaded) # LastCheck(stored)

\* one of the errors of an invocation happened
Failed ==
    \/ InCallback /\ HasMarker /\ ctx.t = <<>>
    \/ \E i \in 1..Len(calls) : CallFailed(i)
    \/ verdict \notin {"none", "valid"}

\* C4: an error (no exchange token, a failed exchange, fetch, persistence or
\* redirect, a rejected result) ends the invocation at once, callback getting
\* the error and no call following the failure; a callback with the marker
\* lets the login through only after exchange, fetch, validation and
\* persistence all succeeded.
C4_ErrorsDenyLogin ==
    /\ Failed =>
        /\ pc = "done"
        /\ cb = <<"err">>
        /\ err # ""
        /\ \A i \in 1..Len(calls) : CallFailed(i) => i = Len(calls)
        /\ verdict \notin {"none", "valid"} => ~Called("updateAppMetadata")
    /\ (pc = "done" /\ InCallback /\ HasMarker /\ cb = <<"ok">>) =>
        /\ calls = <<Call("exchangeToken", "ok"), Call("idCheckResults", "ok"),
                     Call("updateAppMetadata", "ok")>>
        /\ verdict = "valid"
        /\ stored = usr

C4_Witness ==
    /\ pc = "done"
    /\ Len(calls) = 3
    /\ calls[3] = Call("updateAppMetadata", "fail")
    /\ cb = <<"err">>

\* C5: validation checks identity, then age, then status: an unbound result
\* is an ID mismatch whatever its age and status; a bound one older than 20
\* minutes is too old even when passed, one of exactly 20 minutes is not; a
\* bound, not too old, flagged one is rejected as flagged; a result is
\* accepted exactly when none of the three rejects it.
C5_ValidationOrder ==
    results # <<>> =>
        LET r == results[1]
        IN  /\ ~Bound(r) => verdict = "ID mismatch"
            /\ (Bound(r) /\ TooOld(r)) => verdict = "ID Check too old."
            /\ (Bound(r) /\ HasAge(r) /\ Age(r) = IDCheckTTL) =>
                    verdict # "ID Check too old."
            /\ (Bound(r) /\ ~TooOld(r) /\ r.status = "flagged") =>
                    verdict = "ID Check flagged."
            /\ verdict = "valid" <=> Accepted(r)

C5_Witness ==
    /\ results # <<>>
    /\ Bound(results[1])
    /\ TooOld(results[1])
    /\ results[1].status = "passed"
    /\ verdict = "ID Check too old."

\* C6: a callback without the marker calls back with (user, context) at once:
\* no error, no log, no call to a collaborator, the record as it was found.
C6_UnrelatedCallbackUntouched ==
    (InCallback /\ ~HasMarker) =>
        /\ pc = "done"
        /\ cb = <<"ok">>
        /\ err = ""
        /\ logs = 0
        /\ calls = <<>>
        /\ stored = loaded
        /\ usr = loaded

C6_Witness ==
    InCallback /\ ~HasMarker /\ ctx.t # <<>> /\ stored # <<>> /\ manager.debug

\* C7: a callback with the marker and no exchange token fails with the
\* missing-exchange-key error before any call: no call to a collaborator, the
\* record as it was found, callback getting the error.
C7_MissingTokenFailsFirst ==
    (InCallback /\ HasMarker /\ ctx.t = <<>>) =>
        /\ pc = "done"
        /\ err = "Missing Caisson exchange key"
        /\ cb = <<"err">>
        /\ calls = <<>>
        /\ stored = loaded
        /\ usr = loaded

C7_Witness == InCallback /\ HasMarker /\ ctx.t = <<>> /\ stored # <<>>

PassedCase ==
    /\ InCallback
    /\ results # <<>>
    /\ Bound(results[1])
    /\ Fresh(results[1])
    /\ results[1].status = "passed"

PassedRecord ==
    [idcheck_url |-> <<"https://www.caisson.com/request/" \o results[1].check_id>>,
     status |-> <<"passed">>,
     last_check |-> Num(now),
     count |-> Num(PrevCount + 1)]

\* C8: a bound, fresh result with both confidences high is accepted, and the
\* record handed to updateAppMetadata has status passed, last_check = now, the
\* count found plus one (1 when none) and the URL of the result's check_id;
\* once that call succeeds the record is stored and the login goes through.
C8_PassedPersisted ==
    PassedCase =>
        /\ verdict = "valid"
        /\ usr = <<PassedRecord>>
        /\ Len(calls) = 3
        /\ calls[3].op = "updateAppMetadata"
        /\ calls[3].res = "ok" =>
            /\ pc = "done"
            /\ stored = <<PassedRecord>>
            /\ cb = <<"ok">>
            /\ err = ""

C8_Witness ==
    /\ PassedCase
    /\ pc = "done"
    /\ calls[3].res = "ok"
    /\ PrevCount = 1
    /\ results[1].check_id = "c2"

RecheckCase ==
    /\ InNormalLogin
    /\ ~FirstLoginRule
    /\ ~EveryLoginRule
    /\ PositiveInterval
    /\ HasLastCheck(loaded)

\* C9: a normal login that matches neither the first-login rule nor the
\* every-login rule, with a positive interval N and a last_check, calls
\* setIDCheckRedirect exactly when floor((now - last_check) / 86 400 000) >= N.
C9_RecheckAtInterval == RecheckCase => (decision <=> ElapsedDays >= Interval)

C9_Witness ==
    RecheckCase /\ Interval = 2 /\ ElapsedDays = 2 /\ decision
        /\ (now - LastCheck(loaded)[2]) = 2 * DayMs

\* C10: a normal login calls setIDCheckRedirect whenever the first-login rule
\* matches (on_registration and loginsCount 0) or the frequency is -1, whatever
\* the frequency, the record and the rest are.
C10_FirstTwoRulesTrigger ==
    (InNormalLogin /\ (FirstLoginRule \/ EveryLoginRule)) => decision

C10_Witness ==
    /\ InNormalLogin
    /\ FirstLoginRule
    /\ manager.login_frequency_days = Num(0)
    /\ HasLastCheck(loaded)
    /\ decision


\* the calls a callback makes, in order
Steps == <<"exchangeToken", "idCheckResults", "updateAppMetadata">>

\* C11: the calls of an invocation are made one after the other and none
\* twice: a callback calls exchangeToken, then idCheckResults, then
\* updateAppMetadata, each at most once and each only after the one before
\* returned ok, updateAppMetadata only after validation accepted the result;
\* only the last call can be pending, and a failed call is the last one, the
\* invocation having ended.
C11_CallsSequentialOnce ==
    /\ InCallback =>
        /\ Len(calls) <= 3
        /\ \A i \in 1..Len(calls) : calls[i].op = Steps[i]
    /\ \A i \in 1..Len(calls) :
        /\ i < Len(calls) => calls[i].res = "ok"
        /\ CallFailed(i) => pc = "done"
        /\ calls[i].res = "pending" => pc # "done"
    /\ Called("updateAppMetadata") => verdict = "valid"
    /\ Called("idCheckResults") => ~NoExchangeToken(ctx)

C11_Witness ==
    /\ pc = "done"
    /\ Len(calls) = 2
    /\ calls[1] = Call("exchangeToken", "ok")
    /\ calls[2] = Call("idCheckResults", "fail")


\* the count of a stored record, 0 when there is none
Count(rec) == IF rec = <<>> \/ rec[1].count[1] # "num" THEN 0 ELSE rec[1].count[2]

\* C13: the stored count never goes down, and every step that changes the
\* stored record raises it by exactly one.
C13_CountGrowsByOne ==
    [][/\ Count(stored') >= Count(stored)
       /\ stored' # stored => Count(stored') = Count(stored) + 1]_vars

C13_Witness == pc = "done" /\ Count(stored) = 2 /\ Count(loaded) = 1

\* C14: a normal login with a frequency of 0 that does not match the
\* first-login rule does not call setIDCheckRedirect: no redirect, no call,
\* no error, callback gets (user, context), whatever record is stored.
C14_ZeroNeverTriggers ==
    (InNormalLogin /\ manager.login_frequency_days = Num(0) /\ ~FirstLoginRule) =>
        /\ ~decision
        /\ ~redirect
        /\ calls = <<>>
        /\ err = ""
        /\ cb = <<"ok">>
        /\ stored = loaded

C14_Witness ==
    /\ InNormalLogin
    /\ manager.login_frequency_days = Num(0)
    /\ manager.on_registration
    /\ ctx.loginsCount = 1
    /\ HasLastCheck(loaded)
    /\ now - LastCheck(loaded)[2] >= DayMs
    /\ ~decision

\* C15 (as claimed): validation accepts a result only when its checked_on
\* parses to a time and the result is at most 20 minutes old.
C15_AcceptedHasAge ==
    (results # <<>> /\ verdict = "valid") => Fresh(results[1])


\* a normal login that finds a passed record, under a positive interval and
\* without the first-login rule
AfterPassCase ==
    /\ InNormalLogin
    /\ ~FirstLoginRule
    /\ PositiveInterval
    /\ loaded # <<>>
    /\ loaded[1].status = <<"passed">>
    /\ HasLastCheck(loaded)

\* C16: the stored record changes only when a callback's updateAppMetadata
\* settles, and then holds status passed and last_check = T, the time of that
\* callback; under a positive interval N and without the first-login rule,
\* every normal login after it at t with floor((t - T) / 1 day) < N goes
\* through without a call of setIDCheckRedirect, and one with
\* floor((t - T) / 1 day) >= N calls it (the redirect is set when allowed).
C16_RecheckCycle ==
    /\ [](AfterPassCase =>
            /\ ElapsedDays < Interval =>
                (~decision /\ ~redirect /\ calls = <<>> /\ cb = <<"ok">>)
            /\ ElapsedDays >= Interval =>
                /\ decision
                /\ Len(calls) = 1
                /\ calls[1].op = "doRedirect"
                /\ redirect = ctx.canRedirect)
    /\ [][stored' # stored =>
            /\ pc = "update"
            /\ InCallback
            /\ stored'[1].status = <<"passed">>
            /\ stored'[1].last_check = Num(now)]_vars

C16_Witness ==
    /\ AfterPassCase
    /\ logins = 3
    /\ Interval = 1
    /\ now - LastCheck(loaded)[2] = 2 * DayMs - 1
    /\ decision
    /\ redirect

\* C17: callback is called at most once while an invocation runs and exactly
\* once when it has ended, with an error exactly when one was caught; while
\* the invocation waits, its last call is pending; after callback the only
\* step is the host ending the login, which leaves the stored record alone;
\* and, every awaited call settling, an invocation that waits reaches its
\* callback.
C17_CallbackExactlyOnce ==
    /\ [](/\ Len(cb) <= 1
          /\ pc = "done" <=> Len(cb) = 1
          /\ pc = "done" => (cb = <<"err">> <=> err # "")
          /\ pc \in {"exchange", "fetch", "update"} =>
                (calls # <<>> /\ calls[Len(calls)].res = "pending"))
    /\ [][Len(cb) = 1 => (pc' = "idle" /\ stored' = stored)]_vars
    /\ (pc \in {"exchange", "fetch", "update"}) ~> (Len(cb) = 1)

C17_Witness ==
    /\ pc = "done"
    /\ cb = <<"err">>
    /\ verdict = "ID Check too old."
    /\ Len(calls) = 2


\* C12: an invocation run again from the same stored record, at the same
\* time, with the same context, the same configuration but for CAISSON_DEBUG
\* and the same answers of the collaborators makes the same calls in the same
\* order and, when it has ended, has taken the same redirect decision, left
\* the same record in memory and in store and called back the same way.
C12_DebugChangesNothing ==
    mode = "replay" =>
        LET f == first[1]
        IN  /\ Len(calls) <= Len(f.calls)
            /\ \A i \in 1..Len(calls) :
                /\ calls[i].op = f.calls[i].op
                /\ calls[i].res \in {"pending", f.calls[i].res}
            /\ pc = "done" => Observed = f

C12_Witness ==
    /\ mode = "replay"
    /\ pc = "done"
    /\ manager.debug
    /\ logs = 1
    /\ Len(calls) = 3
    /\ cb = <<"err">>

====
